---- MODULE Spec2Model ----
(***************************************************************************)
(* Asynchronous processing pipeline of Grekonto: the QueueManager          *)
(* (backend/shared/async_queue_manager.py) with its in-memory job store    *)
(* and broker lanes, and the AsyncWorker loop                              *)
(* (backend/shared/async_worker.py) that drains the lanes.                 *)
(***************************************************************************)
EXTENDS Integers, Sequences, FiniteSets, TLC

\* ---------------------------------------------------------------- bounds
MaxJobs == 2        \* number of enqueue_job calls (job ids 1..MaxJobs)
MaxBatch == 2       \* largest batch_size a worker is constructed with
MaxWorkers == 2     \* workers of the pool
MaxPending == 2     \* the operator re-queues only while fewer messages wait in the lanes
DlqMaxLength == 1   \* x-max-length of the dead-letter lane (10000 in _declare_queues), scaled down

MaxLedger == 2      \* most open items the ledger lists

MaxExecutions == 3  \* number of start_execution calls (execution ids 1..MaxExecutions)
MaxHandles == 2     \* number of StageMetrics objects constructed
MaxObjects == 3     \* executions and StageMetrics objects constructed, all in all
MaxStageList == 3   \* most stages complete_stage is asked to add to the executions, all in all
MaxTime == 1        \* ticks of the clock
HistoryLimit == 2   \* PipelineTracker(history_limit) (1000 for the global instance), scaled down

\* ------------------------------------------------------ program constants
Tolerance == 5              \* find_match: largest amount difference of a soft match
FuzzyThreshold == 80        \* find_match: smallest invoice number similarity of a soft match
HardConfidence == 100       \* find_match: confidence of a hard match
ToleranceConfidence == 90   \* find_match: confidence of a match within tolerance
DefaultMaxRetries == 3      \* JobMetadata.max_retries
DefaultBatchSize == 1       \* AsyncWorker.__init__ batch_size, the value WorkerPool.start leaves

JobIds == 1..MaxJobs
Workers == 1..MaxWorkers
Priorities == {"HIGH", "NORMAL", "LOW"}
Lanes == {"process_document_high", "process_document_normal", "process_document_low"}
Statuses == {"QUEUED", "PROCESSING", "COMPLETED", "FAILED", "RETRYING", "DLQ"}
NoJob == [absent |-> TRUE]
NoMsg == "None"
NoView == [pc |-> "idle"]
NoUpdate == [job_id |-> 0]
ReasonMaxRetries == "Max retries exceeded"
ReasonManual == "manual"

VARIABLES
    job_store,      \* QueueManager.job_store: job id -> JobMetadata, or NoJob
    channel,        \* QueueManager.channel: "none" (None), "open", "closed" (every call raises)
    queues,         \* broker: lane name -> sequence of payloads, oldest first
    dlq_queue,      \* broker: the dead-letter lane
    acked,          \* broker: job ids of the deliveries that were basic_ack'ed
    next_job,       \* next job id uuid4 hands out
    batch_size,     \* AsyncWorker.batch_size
    running,        \* per worker: AsyncWorker.running
    pc,             \* per worker: position in _worker_loop / _process_job
    jobs,           \* per worker: the list of JobMetadata.from_dict(payload) that
                    \* _get_jobs_from_queues is building / that _worker_loop still has to process
    cur,            \* per worker: job_metadata.job_id of the job in _process_job (0: none)
    moving,         \* the job id a client's move_to_dlq call is about to publish (0: no such call)
    processed_invoices, \* table ProcessedInvoices: the (PartitionKey, RowKey) pairs it holds
    ledger,         \* the open items the ledger system holds, in the order it lists them
    extracted,      \* extracted_data of the latest find_match call
    match_result,   \* what the latest find_match call returned
    ledger_fetched, \* whether the latest find_match call called get_open_items
    now,            \* datetime.utcnow(), in ticks
    executions,     \* PipelineTracker.executions, in insertion order: execution id -> PipelineExecution
    metrics,        \* the StageMetrics objects constructed so far (a handle is an index)
    stage_history,  \* PipelineTracker.stage_history: stage name -> list of handles
    tracker_error,  \* what the latest tracker call raised ("none": it returned)
    attempt,        \* the _process_job call under way, as far as the tracker is concerned
    reader,         \* the get_stage_performance_stats call under way: its locals
    unacked,        \* broker: job ids of the deliveries the timer-triggered worker holds unacknowledged
    view,           \* api_get_job_status.main under way: the job it holds and the fields it has read
    updating        \* the update_job_status call that holds job_store_lock, or NoUpdate

\* the queue manager and the workers
queue_vars == <<job_store, channel, queues, dlq_queue, acked, next_job, batch_size, running, pc,
                jobs, cur, moving>>

\* the matching engine and its collaborators
matching_vars == <<processed_invoices, ledger, extracted, match_result, ledger_fetched>>

\* the pipeline tracker, the clock and the tracked job attempt
tracker_vars == <<now, executions, metrics, stage_history, tracker_error, attempt, reader>>

\* what the queue manager and the worker loop never touch
\* the timer-triggered queue worker
timer_vars == <<unacked>>

\* the job status endpoint and the update_job_status call it may meet
view_vars == <<view, updating>>

other_vars == <<matching_vars, tracker_vars, timer_vars, view_vars>>

vars == <<queue_vars, other_vars>>

\* ------------------------------------------------------------- JobMetadata
\* JobMetadata(...) as enqueue_job constructs it; timestamps are "set or None"
JobMetadata(priority) ==
    [status |-> "QUEUED", priority |-> priority, retry_count |-> 0,
     max_retries |-> DefaultMaxRetries, error_message |-> NoMsg,
     started_at |-> FALSE, completed_at |-> FALSE, result_metadata |-> {}]

\* JobMetadata.to_dict(), the fields of the payload the model reads
to_dict(job_id, job) ==
    [job_id |-> job_id, priority |-> job.priority, status |-> job.status]

\* QueueManager._get_queue_for_priority
get_queue_for_priority(priority) ==
    IF priority = "HIGH" THEN "process_document_high"
    ELSE IF priority = "LOW" THEN "process_document_low"
    ELSE "process_document_normal"

\* QueueManager.get_job_status: the stored object, or NoJob for None
get_job_status(store, job_id) ==
    IF job_id \in DOMAIN store THEN store[job_id] ELSE NoJob

\* QueueManager.update_job_status, as a function of the store
update_job_status(store, job_id, status, error_message, result_metadata) ==
    IF get_job_status(store, job_id) = NoJob THEN store
    ELSE [store EXCEPT ![job_id] =
            [@ EXCEPT !.status = status,
                      !.error_message = IF error_message # NoMsg THEN error_message ELSE @,
                      !.result_metadata = @ \cup result_metadata,
                      !.started_at = IF status = "PROCESSING" THEN TRUE ELSE @,
                      !.completed_at = IF status \in {"COMPLETED", "FAILED"} THEN TRUE ELSE @]]

\* QueueManager.update_job_status, its first assignments: status, error
\* message and result metadata
update_job_status_fields(store, job_id, status, error_message, result_metadata) ==
    IF get_job_status(store, job_id) = NoJob THEN store
    ELSE [store EXCEPT ![job_id] =
            [@ EXCEPT !.status = status,
                      !.error_message = IF error_message # NoMsg THEN error_message ELSE @,
                      !.result_metadata = @ \cup result_metadata]]

\* QueueManager.update_job_status, its last assignment: the timestamp
update_job_status_stamps(store, job_id, status) ==
    IF get_job_status(store, job_id) = NoJob THEN store
    ELSE [store EXCEPT ![job_id] =
            [@ EXCEPT !.started_at = IF status = "PROCESSING" THEN TRUE ELSE @,
                      !.completed_at = IF status \in {"COMPLETED", "FAILED"} THEN TRUE ELSE @]]

\* a retry test that lets one attempt too many through
can_retry_inclusive(store, job_id) ==
    /\ get_job_status(store, job_id) # NoJob
    /\ store[job_id].retry_count <= store[job_id].max_retries

\* QueueManager.mark_job_for_retry: the value it returns ...
can_retry(store, job_id) ==
    /\ get_job_status(store, job_id) # NoJob
    /\ store[job_id].retry_count < store[job_id].max_retries

\* ... and the store it leaves
mark_job_for_retry(store, job_id) ==
    IF can_retry(store, job_id)
    THEN [store EXCEPT ![job_id] =
            [@ EXCEPT !.retry_count = @ + 1, !.status = "RETRYING"]]
    ELSE store

\* QueueManager.move_to_dlq, first half: the store update under the lock
move_to_dlq_store(store, job_id, reason) ==
    IF get_job_status(store, job_id) = NoJob THEN store
    ELSE [store EXCEPT ![job_id] = [@ EXCEPT !.status = "DLQ", !.error_message = reason]]

\* broker: a publish onto the dead-letter lane, which keeps at most DlqMaxLength
\* messages and drops the oldest on overflow
dlq_publish(lane, payload) ==
    LET q == Append(lane, payload)
    IN IF Len(q) > DlqMaxLength THEN Tail(q) ELSE q

\* QueueManager.move_to_dlq, second half: the publish, outside the lock
move_to_dlq_publish(store, chan, lane, job_id) ==
    IF chan = "open" /\ get_job_status(store, job_id) # NoJob
    THEN dlq_publish(lane, to_dict(job_id, store[job_id]))
    ELSE lane

Pending == Len(queues["process_document_high"]) + Len(queues["process_document_normal"])
           + Len(queues["process_document_low"])

\* ---------------------------------------------------------- matching engine
\* invoice numbers are sequences of characters
Inv1Upper == <<"I", "N", "V", "-", "1">>
Inv1Lower == <<"i", "n", "v", "-", "1">>
Inv2Lower == <<"i", "n", "v", "-", "2">>
Inv99Upper == <<"I", "N", "V", "9", "9">>
NoInvoiceId == <<>>
NoTaxId == ""

\* what a document's extraction can hold (a missing field is NoTaxId / NoInvoiceId)
ExtractedData ==
    [vendor_tax_id : {"T1", NoTaxId}, invoice_id : {Inv1Upper, Inv1Lower, NoInvoiceId},
     amount : {100, 106}]

\* the open items the ledger can list; `id` is the ledger's own key
OpenItems ==
    [id : {"NAV-1"}, tax_id : {"T1", "T2"}, amount : {100, 105, 106}, invoice_id : {Inv2Lower}]
    \cup
    [id : {"NAV-2"}, tax_id : {"T1", "T2"}, amount : {100, 105, 106}, invoice_id : {Inv99Upper}]

NoResult == [status |-> "none"]
NoExtraction == [vendor_tax_id |-> NoTaxId, invoice_id |-> NoInvoiceId, amount |-> 0]

\* how a call on the ProcessedInvoices table ends
TableOutcomes == {"ok", "no_client", "lookup_error", "upsert_error"}

\* str.lower() on one character
lower_char(c) ==
    IF c = "I" THEN "i" ELSE IF c = "N" THEN "n" ELSE IF c = "V" THEN "v" ELSE c

lower(str) == [i \in 1..Len(str) |-> lower_char(str[i])]

\* length of the longest common subsequence of two strings
RECURSIVE lcs(_, _)
lcs(a, b) ==
    IF a = <<>> \/ b = <<>> THEN 0
    ELSE IF Head(a) = Head(b) THEN 1 + lcs(Tail(a), Tail(b))
    ELSE LET x == lcs(Tail(a), b)
             y == lcs(a, Tail(b))
         IN IF x >= y THEN x ELSE y

\* fuzz.ratio: 100 * 2 * matches / (len(a) + len(b)), rounded to an integer
ratio(a, b) ==
    IF Len(a) + Len(b) = 0 THEN 100
    ELSE (2 * 200 * lcs(a, b) + (Len(a) + Len(b))) \div (2 * (Len(a) + Len(b)))

\* abs()
abs(n) == IF n < 0 THEN 0 - n ELSE n

\* table_service.check_duplicate_invoice: the value it returns ...
check_duplicate_invoice(index, vendor_tax_id, invoice_id, table) ==
    /\ vendor_tax_id # NoTaxId
    /\ invoice_id # NoInvoiceId
    /\ table \in {"ok", "upsert_error"}
    /\ <<vendor_tax_id, invoice_id>> \in index

\* ... and the table it leaves: the pair is saved when the lookup answered
\* "not found" and the upsert went through
save_processed_invoice(index, vendor_tax_id, invoice_id, table) ==
    IF vendor_tax_id # NoTaxId /\ invoice_id # NoInvoiceId /\ table = "ok"
    THEN index \cup {<<vendor_tax_id, invoice_id>>}
    ELSE index

\* AOCClient.get_open_items as find_match uses it: the ledger's list, or the
\* empty list when the request failed
get_open_items(items, fetch_ok) == IF fetch_ok THEN items ELSE <<>>

\* find_match, 1: is the item a hard match
is_hard_match(item, data) == item.tax_id = data.vendor_tax_id /\ item.amount = data.amount

\* a tolerance test that leaves the boundary out
is_strictly_within_tolerance(item, data) == abs(item.amount - data.amount) < Tolerance

\* find_match, 2: is the amount within tolerance; is the invoice number similar enough
is_within_tolerance(item, data) == abs(item.amount - data.amount) <= Tolerance

invoice_ratio(item, data) == ratio(lower(item.invoice_id), lower(data.invoice_id))

is_fuzzy_match(item, data) ==
    /\ item.invoice_id # NoInvoiceId
    /\ data.invoice_id # NoInvoiceId
    /\ invoice_ratio(item, data) >= FuzzyThreshold

\* find_match, 2: what the soft match loop returns on an item it stops at
soft_match_result(item, data) ==
    IF is_within_tolerance(item, data)
    THEN [status |-> "YELLOW", match_id |-> item.id, confidence |-> ToleranceConfidence,
          reason |-> "Amount mismatch within tolerance"]
    ELSE [status |-> "YELLOW", match_id |-> item.id, confidence |-> invoice_ratio(item, data),
          reason |-> "Fuzzy match on invoice number"]

\* one loop that returns on the first item matching in any way
match_open_items_single_pass(nav_open_items, data) ==
    LET any == {i \in 1..Len(nav_open_items) :
                    /\ nav_open_items[i].tax_id = data.vendor_tax_id
                    /\ \/ nav_open_items[i].amount = data.amount
                       \/ is_within_tolerance(nav_open_items[i], data)
                       \/ is_fuzzy_match(nav_open_items[i], data)}
        first == CHOOSE i \in any : \A k \in any : i <= k
    IN IF any = {} THEN [status |-> "RED", reason |-> "No matching open item found"]
       ELSE IF is_hard_match(nav_open_items[first], data)
       THEN [status |-> "GREEN", match_id |-> nav_open_items[first].id,
             confidence |-> HardConfidence]
       ELSE soft_match_result(nav_open_items[first], data)

\* find_match after the duplicate check: the two loops over nav_open_items
match_open_items(nav_open_items, data) ==
    LET hard == {i \in 1..Len(nav_open_items) : is_hard_match(nav_open_items[i], data)}
        soft == {i \in 1..Len(nav_open_items) :
                    /\ nav_open_items[i].tax_id = data.vendor_tax_id
                    /\ \/ is_within_tolerance(nav_open_items[i], data)
                       \/ is_fuzzy_match(nav_open_items[i], data)}
        first(S) == CHOOSE i \in S : \A k \in S : i <= k
    IN IF hard # {}
       THEN [status |-> "GREEN", match_id |-> nav_open_items[first(hard)].id,
             confidence |-> HardConfidence]
       ELSE IF soft # {} THEN soft_match_result(nav_open_items[first(soft)], data)
       ELSE [status |-> "RED", reason |-> "No matching open item found"]

DuplicateResult == [status |-> "RED", reason |-> "Duplicate invoice detected"]

\* a find_match that compares with the ledger first and looks for a duplicate
\* only when nothing matched
find_match_result_ledger_first(index, items, data, table, fetch_ok) ==
    LET matched == match_open_items(get_open_items(items, fetch_ok), data)
    IN IF matched.status # "RED" THEN matched
       ELSE IF check_duplicate_invoice(index, data.vendor_tax_id, data.invoice_id, table)
       THEN DuplicateResult
       ELSE matched

\* find_match(extracted_data): the value it returns
find_match_result(index, items, data, table, fetch_ok) ==
    IF check_duplicate_invoice(index, data.vendor_tax_id, data.invoice_id, table)
    THEN DuplicateResult
    ELSE match_open_items(get_open_items(items, fetch_ok), data)

\* a caller (the worker's processing function) calls find_match
find_match(data, table, fetch_ok) ==
    /\ extracted' = data
    /\ match_result' = find_match_result(processed_invoices, ledger, data, table, fetch_ok)
    /\ ledger_fetched' =
          ~check_duplicate_invoice(processed_invoices, data.vendor_tax_id, data.invoice_id, table)
    /\ processed_invoices' =
          save_processed_invoice(processed_invoices, data.vendor_tax_id, data.invoice_id, table)
    /\ UNCHANGED <<ledger, queue_vars, tracker_vars, timer_vars, view_vars>>

\* the ledger system: an invoice is booked as an open item
ledger_opens(item) ==
    /\ Len(ledger) < MaxLedger
    /\ ledger' = Append(ledger, item)
    /\ UNCHANGED <<processed_invoices, extracted, match_result, ledger_fetched, queue_vars, tracker_vars, timer_vars, view_vars>>

\* the ledger system: the oldest open item is settled
ledger_settles ==
    /\ ledger # <<>>
    /\ ledger' = Tail(ledger)
    /\ UNCHANGED <<processed_invoices, extracted, match_result, ledger_fetched, queue_vars, tracker_vars, timer_vars, view_vars>>

\* nothing was matched yet
MatchingIdle ==
    /\ processed_invoices = {}
    /\ ledger = <<>>
    /\ extracted = NoExtraction
    /\ match_result = NoResult
    /\ ledger_fetched = FALSE

\* -------------------------------------------------------- pipeline tracker
StageNames == {"UPLOAD", "VALIDATION", "EXTRACTION"}   \* the PipelineStage members _process_job uses
ExecutionIds == 1..MaxExecutions
NoTime == -1        \* end_time / completed_at is None
NoHandle == 0       \* start_stage returned None
ErrorMessages == {"", "boom"}   \* str(e) of an exception, the empty message included
\* how a caller reports an outcome: success, or failure with a message
Outcomes == {[success |-> TRUE, error_message |-> NoMsg]}
                \cup [success : {FALSE}, error_message : ErrorMessages]
NoAttempt == [state |-> "idle"]
NoReader == [pc |-> "idle"]

\* the number of stages the executions list, all in all
RECURSIVE recorded_stages(_)
recorded_stages(execs) ==
    IF execs = <<>> THEN 0 ELSE Len(Head(execs).stages) + recorded_stages(Tail(execs))

\* StageMetrics(stage_name=...), constructed at time t
StageMetrics(stage_name, t) ==
    [stage_name |-> stage_name, start_time |-> t, end_time |-> NoTime, duration_ms |-> 0,
     status |-> "PENDING", error_message |-> NoMsg, success_count |-> 0, error_count |-> 0]

\* StageMetrics.mark_started at time t
mark_started(m, t) == [m EXCEPT !.start_time = t, !.status = "RUNNING"]

\* a completion that takes the end time for the duration
mark_completed_from_epoch(m, t, success) ==
    [m EXCEPT !.end_time = t,
              !.duration_ms = t,
              !.status = IF success THEN "SUCCESS" ELSE "FAILED"]

\* StageMetrics.mark_completed at time t
mark_completed(m, t, success) ==
    [m EXCEPT !.end_time = t,
              !.duration_ms = t - m.start_time,
              !.status = IF success THEN "SUCCESS" ELSE "FAILED"]

\* PipelineExecution(...), constructed at time t
PipelineExecution(t) ==
    [started_at |-> t, completed_at |-> NoTime, total_duration_ms |-> 0, stages |-> <<>>,
     overall_status |-> "PENDING", error_message |-> NoMsg]

\* PipelineExecution.mark_completed at time t
execution_mark_completed(x, t, success) ==
    [x EXCEPT !.completed_at = t,
              !.total_duration_ms = t - x.started_at,
              !.overall_status = IF success THEN "SUCCESS" ELSE "FAILED"]

\* `if error_message: x.error_message = error_message`
set_error_message(x, error_message) ==
    IF error_message # "" /\ error_message # NoMsg
    THEN [x EXCEPT !.error_message = error_message] ELSE x

\* the slice s[-n:] of a list
last_entries(s, n) ==
    IF n = 0 \/ n >= Len(s) THEN s ELSE SubSeq(s, Len(s) - n + 1, Len(s))

\* a trimming that keeps the oldest entries
trim_history_keep_oldest(s) == IF Len(s) > HistoryLimit THEN SubSeq(s, 1, HistoryLimit) ELSE s

\* complete_stage, the trimming of one stage's history after the append
trim_history(s) == IF Len(s) > HistoryLimit THEN last_entries(s, HistoryLimit) ELSE s

\* PipelineTracker.start_execution: what it leaves in self.executions
started_executions(execs, t) == Append(execs, PipelineExecution(t))

\* PipelineTracker.complete_stage: the StageMetrics objects after the call
completed_metrics(ms, handle, t, success, error_message) ==
    [ms EXCEPT ![handle] = set_error_message(mark_completed(@, t, success), error_message)]

\* PipelineTracker.complete_stage: self.executions after the call
completed_stage_executions(execs, execution_id, handle) ==
    IF execution_id \in DOMAIN execs
    THEN [execs EXCEPT ![execution_id].stages = Append(@, handle)]
    ELSE execs

\* PipelineTracker.complete_stage: self.stage_history after the call
completed_stage_history(hist, execs, execution_id, stage_name, handle) ==
    IF execution_id \in DOMAIN execs
    THEN [hist EXCEPT ![stage_name] = trim_history(Append(@, handle))]
    ELSE hist

\* PipelineTracker.complete_execution: self.executions after the call
completed_executions(execs, execution_id, t, success, error_message) ==
    IF execution_id \in DOMAIN execs
    THEN [execs EXCEPT ![execution_id] =
              set_error_message(execution_mark_completed(@, t, success), error_message)]
    ELSE execs

\* complete_stage seen from a get_stage_performance_stats call under way: the
\* append changes the list object the reader holds, the trimming binds a new
\* list to the stage name and leaves the reader with the old one
reader_after_append(r, hist, execs, execution_id, stage_name, handle) ==
    IF /\ r.pc \notin {"idle", "done"}
       /\ execution_id \in DOMAIN execs
       /\ r.stage_name = stage_name
       /\ r.shared
    THEN [r EXCEPT !.list = Append(@, handle),
                   !.shared = Len(hist[stage_name]) + 1 <= HistoryLimit]
    ELSE r

\* PipelineTracker.start_execution
start_execution ==
    /\ Len(executions) < MaxExecutions
    /\ Len(executions) + Len(metrics) < MaxObjects
    /\ executions' = started_executions(executions, now)
    /\ tracker_error' = "none"
    /\ UNCHANGED <<now, metrics, stage_history, attempt, reader, matching_vars, timer_vars, view_vars, queue_vars>>

\* PipelineTracker.start_stage: None for an unknown execution, else a running StageMetrics
start_stage(execution_id, stage) ==
    /\ execution_id \in DOMAIN executions =>
          (Len(metrics) < MaxHandles /\ Len(executions) + Len(metrics) < MaxObjects)
    /\ metrics' = IF execution_id \in DOMAIN executions
                  THEN Append(metrics, mark_started(StageMetrics(stage, now), now))
                  ELSE metrics
    /\ tracker_error' = "none"
    /\ UNCHANGED <<now, executions, stage_history, attempt, reader, matching_vars, timer_vars, view_vars, queue_vars>>

\* a caller constructs a StageMetrics itself
new_stage_metrics(stage) ==
    /\ Len(metrics) < MaxHandles
    /\ Len(executions) + Len(metrics) < MaxObjects
    /\ metrics' = Append(metrics, StageMetrics(stage, now))
    /\ tracker_error' = "none"
    /\ UNCHANGED <<now, executions, stage_history, attempt, reader, matching_vars, timer_vars, view_vars, queue_vars>>

\* PipelineTracker.complete_stage(execution_id, stage_metrics, success, error_message);
\* stage_metrics is a StageMetrics or the None start_stage returned
complete_stage(execution_id, handle, success, error_message) ==
    /\ execution_id \in DOMAIN executions => recorded_stages(executions) < MaxStageList
    /\ IF handle = NoHandle
       THEN /\ tracker_error' = "AttributeError"
            /\ UNCHANGED <<metrics, executions, stage_history, reader>>
       ELSE /\ metrics' = completed_metrics(metrics, handle, now, success, error_message)
            /\ executions' = completed_stage_executions(executions, execution_id, handle)
            /\ stage_history' = completed_stage_history(stage_history, executions, execution_id,
                                                        metrics[handle].stage_name, handle)
            /\ reader' = reader_after_append(reader, stage_history, executions, execution_id,
                                              metrics[handle].stage_name, handle)
            /\ tracker_error' = "none"
    /\ UNCHANGED <<now, attempt, matching_vars, timer_vars, view_vars, queue_vars>>

\* PipelineTracker.complete_execution
complete_execution(execution_id, success, error_message) ==
    /\ executions' = completed_executions(executions, execution_id, now, success, error_message)
    /\ tracker_error' = "none"
    /\ UNCHANGED <<now, metrics, stage_history, attempt, reader, matching_vars, timer_vars, view_vars, queue_vars>>

\* time passes
tick ==
    /\ now < MaxTime
    /\ now' = now + 1
    /\ UNCHANGED <<executions, metrics, stage_history, tracker_error, attempt, reader, matching_vars, timer_vars, view_vars,
                   queue_vars>>

\* ------------------------------------------------ stage performance statistics
NoMinimum == "inf"      \* PerformanceStats.min_duration_ms = float('inf')

\* PerformanceStats(stage_name=...): the defaults of the dataclass; averages
\* and rates are fractions num/den, std_dev_ms and total_items_processed are left out
PerformanceStats(stage_name) ==
    [stage_name |-> stage_name, total_executions |-> 0, successful_executions |-> 0,
     failed_executions |-> 0, min_duration_ms |-> NoMinimum, max_duration_ms |-> 0,
     avg_duration_ms |-> [num |-> 0, den |-> 1], median_duration_ms |-> [num |-> 0, den |-> 1],
     p95_duration_ms |-> 0, p99_duration_ms |-> 0, success_rate |-> [num |-> 100, den |-> 1]]

\* [m.duration_ms for m in list if m.status == status], the list given as handles
RECURSIVE durations_of(_, _, _)
durations_of(ms, list, status) ==
    IF list = <<>> THEN <<>>
    ELSE IF ms[Head(list)].status = status
         THEN <<ms[Head(list)].duration_ms>> \o durations_of(ms, Tail(list), status)
         ELSE durations_of(ms, Tail(list), status)

\* list.sort() of a list of numbers
RECURSIVE sorted(_)
sorted(d) ==
    IF d = <<>> THEN <<>>
    ELSE LET rest == sorted(Tail(d))
             k == Cardinality({i \in DOMAIN rest : rest[i] <= Head(d)})
         IN SubSeq(rest, 1, k) \o <<Head(d)>> \o SubSeq(rest, k + 1, Len(rest))

RECURSIVE sum(_)
sum(d) == IF d = <<>> THEN 0 ELSE Head(d) + sum(Tail(d))

\* statistics.median of a sorted non-empty list
median(d) ==
    IF Len(d) % 2 = 1 THEN [num |-> d[(Len(d) + 1) \div 2], den |-> 1]
    ELSE [num |-> d[Len(d) \div 2] + d[Len(d) \div 2 + 1], den |-> 2]

\* durations[int(len(durations) * p)] if len(durations) > 1 else durations[0], p in percent
percentile(d, p) == IF Len(d) > 1 THEN d[(Len(d) * p) \div 100 + 1] ELSE d[1]

\* get_stage_performance_stats, from the list it read and the two filtered lists
performance_stats(stage_name, total, successful, failed) ==
    IF total = 0 \/ successful = <<>>
    THEN PerformanceStats(stage_name)
    ELSE LET d == sorted(successful)
         IN [stage_name |-> stage_name,
             total_executions |-> total,
             successful_executions |-> Len(successful),
             failed_executions |-> Len(failed),
             min_duration_ms |-> d[1],
             max_duration_ms |-> d[Len(d)],
             avg_duration_ms |-> [num |-> sum(d), den |-> Len(d)],
             median_duration_ms |-> median(d),
             p95_duration_ms |-> percentile(d, 95),
             p99_duration_ms |-> percentile(d, 99),
             success_rate |-> [num |-> Len(successful) * 100, den |-> total]]

\* PipelineTracker.get_stage_performance_stats(stage) when no other thread runs meanwhile
get_stage_performance_stats(hist, ms, stage_name) ==
    performance_stats(stage_name, Len(hist[stage_name]),
                      durations_of(ms, hist[stage_name], "SUCCESS"),
                      durations_of(ms, hist[stage_name], "FAILED"))

\* get_stage_performance_stats, line by line; it does not take self.lock
\* `stage_metrics_list = self.stage_history[stage.name]`, and the early return
reader_reads(stage_name) ==
    /\ reader.pc \in {"idle", "done"}
    /\ reader' = IF stage_history[stage_name] = <<>>
                 THEN [pc |-> "done", stats |-> PerformanceStats(stage_name)]
                 ELSE [pc |-> "list", stage_name |-> stage_name,
                       list |-> stage_history[stage_name], shared |-> TRUE]
    /\ UNCHANGED <<now, executions, metrics, stage_history, tracker_error, attempt,
                   matching_vars, timer_vars, view_vars, queue_vars>>

\* `successful = [m for m in stage_metrics_list if m.status == "SUCCESS"]`
reader_filters_successful ==
    /\ reader.pc = "list"
    /\ reader' = [pc |-> "successful", stage_name |-> reader.stage_name, list |-> reader.list,
                  shared |-> reader.shared,
                  successful |-> durations_of(metrics, reader.list, "SUCCESS")]
    /\ UNCHANGED <<now, executions, metrics, stage_history, tracker_error, attempt,
                   matching_vars, timer_vars, view_vars, queue_vars>>

\* `failed = [m for m in stage_metrics_list if m.status == "FAILED"]`
reader_filters_failed ==
    /\ reader.pc = "successful"
    /\ reader' = [pc |-> "failed", stage_name |-> reader.stage_name, list |-> reader.list,
                  shared |-> reader.shared, successful |-> reader.successful,
                  failed |-> durations_of(metrics, reader.list, "FAILED")]
    /\ UNCHANGED <<now, executions, metrics, stage_history, tracker_error, attempt,
                   matching_vars, timer_vars, view_vars, queue_vars>>

\* the rest: the early return without durations, or PerformanceStats(...)
\* with total_executions = len(stage_metrics_list)
reader_returns ==
    /\ reader.pc = "failed"
    /\ reader' = [pc |-> "done",
                  stats |-> performance_stats(reader.stage_name, Len(reader.list),
                                              reader.successful, reader.failed)]
    /\ UNCHANGED <<now, executions, metrics, stage_history, tracker_error, attempt,
                   matching_vars, timer_vars, view_vars, queue_vars>>

\* --------------------------------------- _process_job and the pipeline tracker
StageOrder == <<"UPLOAD", "VALIDATION", "EXTRACTION">>   \* the stages of _process_job, in order

\* start_stage for an execution the tracker knows: the new running StageMetrics
started_stage(ms, stage, t) == Append(ms, mark_started(StageMetrics(stage, t), t))

\* _process_job: `stage.success_count = 1` or `stage.error_count = 1` before complete_stage
count_outcome(ms, handle, success) ==
    [ms EXCEPT ![handle] = IF success THEN [@ EXCEPT !.success_count = 1]
                           ELSE [@ EXCEPT !.error_count = 1]]

\* _process_job(job_metadata), up to the download: start_execution,
\* update_job_status(PROCESSING), the status call, start_stage(UPLOAD)
process_job_begins(j) ==
    /\ attempt.state \in {"idle", "ended"}
    /\ get_job_status(job_store, j) # NoJob
    /\ Len(executions) < MaxExecutions
    /\ executions' = started_executions(executions, now)
    /\ job_store' = update_job_status(job_store, j, "PROCESSING", NoMsg, {})
    /\ metrics' = started_stage(metrics, StageOrder[1], now)
    /\ attempt' = [state |-> "stage", job |-> j, execution_id |-> Len(executions) + 1,
                   stage |-> 1, handle |-> Len(metrics) + 1, error |-> NoMsg,
                   failed |-> FALSE, raised |-> 0]
    /\ tracker_error' = "none"
    /\ UNCHANGED <<now, reader, stage_history, matching_vars, timer_vars, view_vars, channel, queues, dlq_queue, acked, next_job,
                   batch_size, running, pc, jobs, cur, moving>>

\* _process_job: the body of the current stage returned; complete_stage(success=True),
\* then start_stage of the next stage or, after the last stage,
\* update_job_status(COMPLETED) and complete_execution(success=True)
stage_returns ==
    /\ attempt.state = "stage"
    /\ LET x == attempt.execution_id
           h == attempt.handle
           done == completed_metrics(count_outcome(metrics, h, TRUE), h, now, TRUE, NoMsg)
           execs == completed_stage_executions(executions, x, h)
       IN /\ stage_history' = completed_stage_history(stage_history, executions, x,
                                                      metrics[h].stage_name, h)
          /\ IF attempt.stage < Len(StageOrder)
             THEN /\ metrics' = started_stage(done, StageOrder[attempt.stage + 1], now)
                  /\ executions' = execs
                  /\ attempt' = [attempt EXCEPT !.stage = @ + 1, !.handle = Len(metrics) + 1]
                  /\ UNCHANGED job_store
             ELSE /\ metrics' = done
                  /\ executions' = completed_executions(execs, x, now, TRUE, NoMsg)
                  /\ job_store' = update_job_status(job_store, attempt.job, "COMPLETED", NoMsg,
                                                    {"execution_id"})
                  /\ attempt' = [attempt EXCEPT !.state = "finish"]
    /\ tracker_error' = "none"
    /\ reader' = reader_after_append(reader, stage_history, executions, attempt.execution_id,
                                      metrics[attempt.handle].stage_name, attempt.handle)
    /\ UNCHANGED <<now, matching_vars, timer_vars, view_vars, channel, queues, dlq_queue, acked, next_job,
                   batch_size, running, pc, jobs, cur, moving>>

\* _process_job: the body of the current stage raised e; the stage's except
\* clause calls complete_stage(success=False, error_message=str(e)) and re-raises
stage_raises(error_message) ==
    /\ attempt.state = "stage"
    /\ LET x == attempt.execution_id
           h == attempt.handle
       IN /\ metrics' = completed_metrics(count_outcome(metrics, h, FALSE), h, now, FALSE,
                                          error_message)
          /\ executions' = completed_stage_executions(executions, x, h)
          /\ stage_history' = completed_stage_history(stage_history, executions, x,
                                                      metrics[h].stage_name, h)
    /\ attempt' = [attempt EXCEPT !.state = "except", !.error = error_message,
                                  !.raised = attempt.stage]
    /\ tracker_error' = "none"
    /\ reader' = reader_after_append(reader, stage_history, executions, attempt.execution_id,
                                      metrics[attempt.handle].stage_name, attempt.handle)
    /\ UNCHANGED <<now, matching_vars, timer_vars, view_vars, job_store, channel, queues, dlq_queue, acked, next_job,
                   batch_size, running, pc, jobs, cur, moving>>

\* _process_job: record_metric or the final status call raised e
finish_raises(error_message) ==
    /\ attempt.state = "finish"
    /\ attempt' = [attempt EXCEPT !.state = "except", !.error = error_message]
    /\ UNCHANGED <<now, reader, executions, metrics, stage_history, tracker_error, matching_vars, timer_vars, view_vars,
                   queue_vars>>

\* _process_job: record_metric and the final status call returned
process_job_returns ==
    /\ attempt.state = "finish"
    /\ attempt' = [attempt EXCEPT !.state = "ended"]
    /\ UNCHANGED <<now, reader, executions, metrics, stage_history, tracker_error, matching_vars, timer_vars, view_vars,
                   queue_vars>>

\* an except clause that never tells the tracker
process_job_fails_untracked ==
    /\ attempt.state = "except"
    /\ job_store' = mark_job_for_retry(job_store, attempt.job)
    /\ attempt' = [attempt EXCEPT !.state = "ended", !.failed = TRUE]
    /\ UNCHANGED <<now, reader, executions, metrics, stage_history, tracker_error, matching_vars, timer_vars, view_vars, channel,
                   queues, dlq_queue, acked, next_job, batch_size, running, pc, jobs, cur, moving>>

\* _process_job, the except clause: mark_job_for_retry or move_to_dlq, the
\* status call (which logs its own failures), complete_execution(success=False, str(e))
process_job_fails ==
    /\ attempt.state = "except"
    /\ LET j == attempt.job
           marked == mark_job_for_retry(job_store, j)
       IN IF can_retry(job_store, j)
          THEN /\ job_store' = marked
               /\ UNCHANGED dlq_queue
          ELSE /\ job_store' = move_to_dlq_store(marked, j, ReasonMaxRetries)
               /\ dlq_queue' = move_to_dlq_publish(job_store', channel, dlq_queue, j)
    /\ executions' = completed_executions(executions, attempt.execution_id, now, FALSE,
                                          attempt.error)
    /\ attempt' = [attempt EXCEPT !.state = "ended", !.failed = TRUE]
    /\ tracker_error' = "none"
    /\ UNCHANGED <<now, reader, metrics, stage_history, matching_vars, timer_vars, view_vars, channel, queues, acked, next_job,
                   batch_size, running, pc, jobs, cur, moving>>

\* PipelineTracker.__init__, and no _process_job call under way
TrackerIdle ==
    /\ now = 0
    /\ executions = <<>>
    /\ metrics = <<>>
    /\ stage_history = [n \in StageNames |-> <<>>]
    /\ tracker_error = "none"
    /\ attempt = NoAttempt
    /\ reader = NoReader

\* -------------------------------------------------------------------- Init
\* QueueManager.__init__ (the connection is made or not), and no job yet
Construction ==
    /\ job_store = [j \in JobIds |-> NoJob]
    /\ channel \in {"none", "open"}
    /\ queues = [l \in Lanes |-> <<>>]
    /\ dlq_queue = <<>>
    /\ acked = {}
    /\ next_job = 1
    /\ pc = [w \in Workers |-> "loop"]
    /\ jobs = [w \in Workers |-> <<>>]
    /\ cur = [w \in Workers |-> 0]
    /\ moving = 0
    /\ MatchingIdle
    /\ TrackerIdle
    /\ unacked = {}
    /\ view = NoView
    /\ updating = NoUpdate

\* WorkerPool.start(): every worker of the pool runs, with the default batch size
Init ==
    /\ Construction
    /\ batch_size = DefaultBatchSize
    /\ running = [w \in Workers |-> TRUE]

\* one AsyncWorker constructed with a batch size and started
InitSingle ==
    /\ Construction
    /\ batch_size \in 1..MaxBatch
    /\ running = [w \in Workers |-> w = 1]

\* the QueueManager alone, no worker started
InitApi ==
    /\ Construction
    /\ batch_size = DefaultBatchSize
    /\ running = [w \in Workers |-> FALSE]

\* ----------------------------------------------------- QueueManager calls
\* an enqueue that records the job only when the publish went through
enqueue_job_published_only(priority) ==
    /\ next_job <= MaxJobs
    /\ moving # next_job
    /\ job_store' = IF channel = "open"
                    THEN [job_store EXCEPT ![next_job] = JobMetadata(priority)]
                    ELSE job_store
    /\ queues' = IF channel = "open"
                 THEN [queues EXCEPT ![get_queue_for_priority(priority)] =
                         Append(@, to_dict(next_job, JobMetadata(priority)))]
                 ELSE queues
    /\ next_job' = next_job + 1
    /\ UNCHANGED <<other_vars, channel, dlq_queue, acked, batch_size, running, pc, jobs, cur, moving>>

\* QueueManager.enqueue_job
\* (job_id is a fresh uuid4: never the id a move_to_dlq in flight was given)
enqueue_job(priority) ==
    /\ next_job <= MaxJobs
    /\ moving # next_job
    /\ job_store' = [job_store EXCEPT ![next_job] = JobMetadata(priority)]
    /\ queues' = IF channel = "open"
                 THEN [queues EXCEPT ![get_queue_for_priority(priority)] =
                         Append(@, to_dict(next_job, JobMetadata(priority)))]
                 ELSE queues
    /\ next_job' = next_job + 1
    /\ UNCHANGED <<other_vars, channel, dlq_queue, acked, batch_size, running, pc, jobs, cur, moving>>

\* a client calling QueueManager.mark_job_for_retry
client_mark_job_for_retry(job_id) ==
    /\ job_store' = mark_job_for_retry(job_store, job_id)
    /\ UNCHANGED <<other_vars, channel, queues, dlq_queue, acked, next_job, batch_size, running, pc, jobs, cur,
                   moving>>

\* a move_to_dlq that touches the store only when there is a channel to publish on
client_move_to_dlq_needs_broker(job_id) ==
    /\ job_store' = IF channel = "open"
                    THEN move_to_dlq_store(job_store, job_id, ReasonManual)
                    ELSE job_store
    /\ moving = 0
    /\ moving' = job_id
    /\ UNCHANGED <<other_vars, channel, queues, dlq_queue, acked, next_job, batch_size, running, pc, jobs, cur>>

\* a client calling QueueManager.move_to_dlq: the locked store update ...
client_move_to_dlq(job_id) ==
    /\ job_store' = move_to_dlq_store(job_store, job_id, ReasonManual)
    /\ moving = 0
    /\ moving' = job_id
    /\ UNCHANGED <<other_vars, channel, queues, dlq_queue, acked, next_job, batch_size, running, pc, jobs, cur>>

\* ... and then the publish
client_move_to_dlq_publish ==
    /\ moving # 0
    /\ dlq_queue' = move_to_dlq_publish(job_store, channel, dlq_queue, moving)
    /\ moving' = 0
    /\ UNCHANGED <<other_vars, job_store, channel, queues, acked, next_job, batch_size, running, pc, jobs, cur>>

\* QueueManager.resolve_dlq_item: the value it returns
resolve_dlq_item_ret(store, chan, job_id, action) ==
    IF get_job_status(store, job_id) = NoJob THEN FALSE
    ELSE IF store[job_id].status # "DLQ" THEN FALSE
    ELSE IF action = "retry" THEN chan = "open"
    ELSE action = "delete"

\* a retry that hands the job a fresh retry budget
resolve_dlq_item_store_fresh(store, job_id, action) ==
    IF get_job_status(store, job_id) = NoJob THEN store
    ELSE IF store[job_id].status # "DLQ" THEN store
    ELSE IF action = "retry"
         THEN [store EXCEPT ![job_id] = [@ EXCEPT !.status = "QUEUED", !.error_message = NoMsg,
                                                  !.retry_count = 0]]
    ELSE IF action = "delete" THEN [store EXCEPT ![job_id] = NoJob]
    ELSE store

\* QueueManager.resolve_dlq_item: the store it leaves
resolve_dlq_item_store(store, job_id, action) ==
    IF get_job_status(store, job_id) = NoJob THEN store
    ELSE IF store[job_id].status # "DLQ" THEN store
    ELSE IF action = "retry"
         THEN [store EXCEPT ![job_id] = [@ EXCEPT !.status = "QUEUED", !.error_message = NoMsg]]
    ELSE IF action = "delete" THEN [store EXCEPT ![job_id] = NoJob]
    ELSE store

\* QueueManager.resolve_dlq_item: the lanes it leaves
resolve_dlq_item_queues(store, chan, qs, job_id, action) ==
    IF /\ get_job_status(store, job_id) # NoJob
       /\ store[job_id].status = "DLQ"
       /\ action = "retry"
       /\ chan = "open"
    THEN LET job == resolve_dlq_item_store(store, job_id, action)[job_id]
         IN [qs EXCEPT ![get_queue_for_priority(job.priority)] = Append(@, to_dict(job_id, job))]
    ELSE qs

\* the operator calling QueueManager.resolve_dlq_item
resolve_dlq_item(job_id, action) ==
    /\ Pending < MaxPending
    /\ job_store' = resolve_dlq_item_store(job_store, job_id, action)
    /\ queues' = resolve_dlq_item_queues(job_store, channel, queues, job_id, action)
    /\ UNCHANGED <<other_vars, channel, dlq_queue, acked, next_job, batch_size, running, pc, jobs, cur, moving>>

\* QueueManager.get_dlq_items: the stored jobs with status DLQ, newest first
\* (job ids are handed out in creation order), cut to offset and limit
RECURSIVE newest_first(_)
newest_first(ids) ==
    IF ids = {} THEN <<>>
    ELSE LET newest == CHOOSE j \in ids : \A k \in ids : k <= j
         IN <<newest>> \o newest_first(ids \ {newest})

get_dlq_items(store, limit, offset) ==
    LET dlq_items == newest_first({j \in JobIds : store[j] # NoJob /\ store[j].status = "DLQ"})
    IN SubSeq(dlq_items, offset + 1,
              IF offset + limit < Len(dlq_items) THEN offset + limit ELSE Len(dlq_items))

\* broker: the oldest message of a lane outlives the x-message-ttl of the lane
\* and is dead-lettered through process_document_dlx to the dead-letter lane
message_expires(lane) ==
    /\ queues[lane] # <<>>
    /\ queues' = [queues EXCEPT ![lane] = Tail(@)]
    /\ dlq_queue' = dlq_publish(dlq_queue, Head(queues[lane]))
    /\ UNCHANGED <<other_vars, job_store, channel, acked, next_job, batch_size, running, pc, jobs, cur, moving>>

\* the broker connection is lost: every later call on the channel raises
broker_fails ==
    /\ channel = "open"
    /\ channel' = "closed"
    /\ UNCHANGED <<other_vars, job_store, queues, dlq_queue, acked, next_job, batch_size, running, pc, jobs,
                   cur, moving>>

\* ------------------------------------------------- timer-triggered queue worker
TimerOutcomes == {"unacked", "requeued"}

\* process_queue_worker.main: the basic_get on one lane, for a channel that is there
timer_get(chan, qs, lane) ==
    IF chan = "open" /\ qs[lane] # <<>> THEN <<Head(qs[lane])>> ELSE <<>>

\* process_queue_worker.main, one timer tick: basic_get on the high lane, then
\* on the normal lane, then _process_job for each delivery. No delivery is
\* acknowledged, because matching_engine.match_invoice does not exist: the
\* job either stays unacknowledged (OCR failed and _process_job returned, or
\* basic_nack raised) or is handed back to the head of its lane
\* (basic_nack(requeue=True)).
timer_main(high_outcome, normal_outcome) ==
    LET high == timer_get(channel, queues, "process_document_high")
        normal == timer_get(channel, queues, "process_document_normal")
        kept_high == high # <<>> /\ high_outcome = "unacked"
        kept_normal == normal # <<>> /\ normal_outcome = "unacked"
    IN /\ queues' = [queues EXCEPT
                        !["process_document_high"] = IF kept_high THEN Tail(@) ELSE @,
                        !["process_document_normal"] = IF kept_normal THEN Tail(@) ELSE @]
       /\ unacked' = unacked \cup (IF kept_high THEN {high[1].job_id} ELSE {})
                             \cup (IF kept_normal THEN {normal[1].job_id} ELSE {})
       /\ UNCHANGED <<matching_vars, tracker_vars, view_vars, job_store, channel, dlq_queue, acked, next_job,
                      batch_size, running, pc, jobs, cur, moving>>

\* ------------------------------------------------------------ AsyncWorker
\* one basic_get on a lane inside _get_jobs_from_queues, with the basic_ack that
\* follows it: the batch, the lanes and the acknowledged deliveries it leaves.
\* On a closed channel basic_get raises and the except clause moves on.
get_batch_prepend(chan, qs, batch, lane) ==
    IF chan = "open" /\ qs[lane] # <<>> THEN <<Head(qs[lane])>> \o batch ELSE batch

get_batch(chan, qs, batch, lane) ==
    IF chan = "open" /\ qs[lane] # <<>> THEN Append(batch, Head(qs[lane])) ELSE batch

get_queues(chan, qs, lane) ==
    IF chan = "open" /\ qs[lane] # <<>> THEN [qs EXCEPT ![lane] = Tail(@)] ELSE qs

get_acked(chan, qs, acks, lane) ==
    IF chan = "open" /\ qs[lane] # <<>> THEN acks \cup {Head(qs[lane]).job_id} ELSE acks

\* the lane _get_jobs_from_queues tries after `lane` when the batch has room
next_lane(lane) ==
    IF lane = "process_document_high" THEN "process_document_normal"
    ELSE "process_document_low"

\* where _worker_loop is after the basic_get on `lane` returned `batch`
after_poll(lane, batch, size) ==
    IF lane = "process_document_low" THEN (IF batch = <<>> THEN "loop" ELSE "batch")
    ELSE IF Len(batch) < size THEN next_lane(lane)
    ELSE "batch"

\* _get_jobs_from_queues: one lane
poll(w, at, lane) ==
    /\ pc[w] = at
    /\ jobs' = [jobs EXCEPT ![w] = get_batch(channel, queues, @, lane)]
    /\ queues' = get_queues(channel, queues, lane)
    /\ acked' = get_acked(channel, queues, acked, lane)
    /\ pc' = [pc EXCEPT ![w] = after_poll(lane, jobs'[w], batch_size)]
    /\ UNCHANGED <<other_vars, job_store, channel, dlq_queue, next_job, batch_size, running, cur, moving>>

\* _worker_loop while running; _get_jobs_from_queues returns [] without a
\* channel, and otherwise tries the high lane first
poll_high(w) ==
    /\ running[w]
    /\ channel # "none"
    /\ poll(w, "loop", "process_document_high")

\* _get_jobs_from_queues: the normal lane, reached when len(jobs) < batch_size
poll_normal(w) == poll(w, "process_document_normal", "process_document_normal")

\* _get_jobs_from_queues: the low lane, reached when len(jobs) < batch_size;
\* _worker_loop sleeps and polls again when the batch is empty
poll_low(w) == poll(w, "process_document_low", "process_document_low")

\* _worker_loop takes the next job of the batch; _process_job starts the
\* execution and calls update_job_status(PROCESSING)
start_job(w) ==
    /\ pc[w] = "batch"
    /\ running[w]
    /\ cur' = [cur EXCEPT ![w] = Head(jobs[w]).job_id]
    /\ jobs' = [jobs EXCEPT ![w] = Tail(@)]
    /\ job_store' = update_job_status(job_store, Head(jobs[w]).job_id, "PROCESSING", NoMsg, {})
    /\ pc' = [pc EXCEPT ![w] = "stages"]
    /\ UNCHANGED <<other_vars, channel, queues, dlq_queue, acked, next_job, batch_size, running, moving>>

\* where the loop goes when _process_job returns (sink_ok) or when the status
\* sink raises inside the except clause and the exception reaches _worker_loop,
\* which drops the rest of the batch
after_job(w, sink_ok) ==
    /\ cur' = [cur EXCEPT ![w] = 0]
    /\ jobs' = [jobs EXCEPT ![w] = IF sink_ok THEN @ ELSE <<>>]
    /\ pc' = [pc EXCEPT ![w] = IF jobs'[w] = <<>> THEN "loop" ELSE "batch"]

\* _process_job: the status sink, download, validation and the processing
\* function all returned; update_job_status(COMPLETED, {"execution_id": ...})
complete_job(w) ==
    /\ pc[w] = "stages"
    /\ job_store' = update_job_status(job_store, cur[w], "COMPLETED", NoMsg, {"execution_id"})
    /\ pc' = [pc EXCEPT ![w] = "finish"]
    /\ UNCHANGED <<other_vars, channel, queues, dlq_queue, acked, next_job, batch_size, running, jobs, cur,
                   moving>>

\* _process_job: complete_execution, record_metric and the status sink returned
finish_job(w) ==
    /\ pc[w] = "finish"
    /\ after_job(w, TRUE)
    /\ UNCHANGED <<other_vars, job_store, channel, queues, dlq_queue, acked, next_job, batch_size, running,
                   moving>>

\* an except clause that goes on to the next job whatever mark_job_for_retry returned
handle_failure_no_dlq(w, sink_ok) ==
    /\ job_store' = mark_job_for_retry(job_store, cur[w])
    /\ after_job(w, sink_ok)
    /\ UNCHANGED <<other_vars, channel, queues, dlq_queue, acked, next_job, batch_size, running, moving>>

\* _process_job, except clause: mark_job_for_retry, then (when it returned
\* true) the status sink call, which returns or raises
handle_failure(w, sink_ok) ==
    /\ job_store' = mark_job_for_retry(job_store, cur[w])
    /\ IF can_retry(job_store, cur[w])
       THEN after_job(w, sink_ok)
       ELSE /\ pc' = [pc EXCEPT ![w] = "dlq"]
            /\ UNCHANGED <<jobs, cur>>
    /\ UNCHANGED <<other_vars, channel, queues, dlq_queue, acked, next_job, batch_size, running, moving>>

\* _process_job: the status sink before the stages, or a stage, raises
stage_fails(w) ==
    /\ pc[w] = "stages"
    /\ \E sink_ok \in BOOLEAN : handle_failure(w, sink_ok)

\* _process_job: a call after update_job_status(COMPLETED) raises (the status sink)
finish_fails(w) ==
    /\ pc[w] = "finish"
    /\ \E sink_ok \in BOOLEAN : handle_failure(w, sink_ok)

\* _process_job, except clause: move_to_dlq, the store update under the lock
worker_move_to_dlq(w) ==
    /\ pc[w] = "dlq"
    /\ job_store' = move_to_dlq_store(job_store, cur[w], ReasonMaxRetries)
    /\ pc' = [pc EXCEPT ![w] = "dlqpub"]
    /\ UNCHANGED <<other_vars, channel, queues, dlq_queue, acked, next_job, batch_size, running, jobs, cur,
                   moving>>

\* _process_job, except clause: move_to_dlq, the publish; then the status sink call
worker_move_to_dlq_publish(w) ==
    /\ pc[w] = "dlqpub"
    /\ dlq_queue' = move_to_dlq_publish(job_store, channel, dlq_queue, cur[w])
    /\ \E sink_ok \in BOOLEAN : after_job(w, sink_ok)
    /\ UNCHANGED <<other_vars, job_store, channel, queues, acked, next_job, batch_size, running, moving>>

\* AsyncWorker.stop: the flag _worker_loop tests before every poll and job
stop(w) ==
    /\ running[w]
    /\ running' = [running EXCEPT ![w] = FALSE]
    /\ UNCHANGED <<other_vars, job_store, channel, queues, dlq_queue, acked, next_job, batch_size, pc, jobs,
                   cur, moving>>

\* _worker_loop, `if not self.running: break`: the rest of the fetched batch
\* is dropped and the while test ends the loop
leave_batch(w) ==
    /\ pc[w] = "batch"
    /\ ~running[w]
    /\ jobs' = [jobs EXCEPT ![w] = <<>>]
    /\ pc' = [pc EXCEPT ![w] = "loop"]
    /\ UNCHANGED <<other_vars, job_store, channel, queues, dlq_queue, acked, next_job, batch_size, running,
                   cur, moving>>

WorkerStep(w) ==
    \/ poll_high(w)
    \/ poll_normal(w)
    \/ poll_low(w)
    \/ start_job(w)
    \/ complete_job(w)
    \/ finish_job(w)
    \/ stage_fails(w)
    \/ finish_fails(w)
    \/ worker_move_to_dlq(w)
    \/ worker_move_to_dlq_publish(w)

\* the steps of a worker whose processing function raises on every attempt
FailingWorkerStep(w) ==
    \/ poll_high(w)
    \/ poll_normal(w)
    \/ poll_low(w)
    \/ start_job(w)
    \/ stage_fails(w)
    \/ worker_move_to_dlq(w)
    \/ worker_move_to_dlq_publish(w)

\* ------------------------------------------------- job status endpoint
\* the statuses _process_job passes to update_job_status, and the status a
\* job has when it does
WorkerUpdates == {"PROCESSING", "COMPLETED"}

update_follows(status) ==
    IF status = "PROCESSING" THEN {"QUEUED", "RETRYING"} ELSE {"PROCESSING"}

\* a worker thread in update_job_status: it has taken job_store_lock and
\* assigned job.status
update_begins(job_id, status) ==
    /\ updating = NoUpdate
    /\ get_job_status(job_store, job_id) # NoJob
    /\ job_store[job_id].status \in update_follows(status)
    /\ job_store' = update_job_status_fields(job_store, job_id, status, NoMsg,
                                             IF status = "COMPLETED" THEN {"execution_id"} ELSE {})
    /\ updating' = [job_id |-> job_id, status |-> status]
    /\ UNCHANGED <<matching_vars, tracker_vars, timer_vars, view, channel, queues, dlq_queue, acked,
                   next_job, batch_size, running, pc, jobs, cur, moving>>

\* the same call assigns started_at or completed_at and releases the lock
update_stamps ==
    /\ updating # NoUpdate
    /\ job_store' = update_job_status_stamps(job_store, updating.job_id, updating.status)
    /\ updating' = NoUpdate
    /\ UNCHANGED <<matching_vars, tracker_vars, timer_vars, view, channel, queues, dlq_queue, acked,
                   next_job, batch_size, running, pc, jobs, cur, moving>>

\* api_get_job_status.main: get_job_status takes job_store_lock and returns
\* the stored JobMetadata object itself (404 when there is none); a request
\* starts when the one before it has returned its response
view_gets(job_id) ==
    /\ view.pc \in {"idle", "done"}
    /\ updating = NoUpdate
    /\ get_job_status(job_store, job_id) # NoJob
    /\ view' = [pc |-> "job_status", job_id |-> job_id]
    /\ UNCHANGED <<matching_vars, tracker_vars, timer_vars, updating, queue_vars>>

\* main builds response_body from the object, field by field, without the lock
view_reads_status ==
    /\ view.pc = "job_status"
    /\ view' = [pc |-> "started_at", job_id |-> view.job_id,
                job_status |-> job_store[view.job_id].status]
    /\ UNCHANGED <<matching_vars, tracker_vars, timer_vars, updating, queue_vars>>

view_reads_started_at ==
    /\ view.pc = "started_at"
    /\ view' = [pc |-> "completed_at", job_id |-> view.job_id, job_status |-> view.job_status,
                started_at |-> job_store[view.job_id].started_at]
    /\ UNCHANGED <<matching_vars, tracker_vars, timer_vars, updating, queue_vars>>

view_reads_completed_at ==
    /\ view.pc = "completed_at"
    /\ view' = [pc |-> "done", job_id |-> view.job_id, job_status |-> view.job_status,
                started_at |-> view.started_at,
                completed_at |-> job_store[view.job_id].completed_at]
    /\ UNCHANGED <<matching_vars, tracker_vars, timer_vars, updating, queue_vars>>

\* --------------------------------------------------------- specifications
\* the worker pool: producers, the workers, clients failing jobs, the operator
Next ==
    \/ \E p \in Priorities : enqueue_job(p)
    \/ \E j \in JobIds : client_mark_job_for_retry(j)
    \/ \E j \in JobIds, a \in {"retry", "delete"} : resolve_dlq_item(j, a)
    \/ \E w \in Workers : WorkerStep(w)
    \/ broker_fails

Spec == Init /\ [][Next]_vars

\* the QueueManager's public methods called by clients, no worker
NextApi ==
    \/ \E p \in Priorities : enqueue_job(p)
    \/ \E j \in JobIds : client_mark_job_for_retry(j)
    \/ \E j \in JobIds : client_move_to_dlq(j)
    \/ client_move_to_dlq_publish
    \/ \E j \in JobIds, a \in {"retry", "delete"} : resolve_dlq_item(j, a)
    \/ broker_fails

SpecApi == InitApi /\ [][NextApi]_vars

\* one worker with any batch size
NextSingle ==
    \/ \E p \in Priorities : enqueue_job(p)
    \/ \E j \in JobIds : client_mark_job_for_retry(j)
    \/ \E j \in JobIds, a \in {"retry", "delete"} : resolve_dlq_item(j, a)
    \/ WorkerStep(1)
    \/ broker_fails

SpecSingle == InitSingle /\ [][NextSingle]_vars

\* one worker that its owner may stop at any moment
NextStop ==
    \/ \E p \in Priorities : enqueue_job(p)
    \/ \E j \in JobIds : client_mark_job_for_retry(j)
    \/ WorkerStep(1)
    \/ stop(1)
    \/ leave_batch(1)
    \/ broker_fails

SpecStop == InitSingle /\ [][NextStop]_vars

\* the job status endpoint polled while a worker thread updates job statuses
InitView == InitApi /\ channel = "open"

NextView ==
    \/ \E p \in Priorities : enqueue_job(p)
    \/ \E j \in JobIds, status \in WorkerUpdates : update_begins(j, status)
    \/ update_stamps
    \/ \E j \in JobIds : view_gets(j)
    \/ view_reads_status
    \/ view_reads_started_at
    \/ view_reads_completed_at

SpecView == InitView /\ [][NextView]_vars

\* the broker stays reachable, one worker runs and every attempt fails; the
\* worker thread keeps taking steps
InitRetry == InitSingle /\ channel = "open"

NextRetry ==
    \/ \E p \in Priorities : enqueue_job(p)
    \/ \E j \in JobIds : client_mark_job_for_retry(j)
    \/ FailingWorkerStep(1)

SpecRetry == InitRetry /\ [][NextRetry]_vars /\ WF_vars(FailingWorkerStep(1))

\* one worker with the default batch size, and messages that may age out of their lanes
InitTtl ==
    /\ Construction
    /\ batch_size = DefaultBatchSize
    /\ running = [w \in Workers |-> w = 1]

NextTtl ==
    \/ \E p \in Priorities : enqueue_job(p)
    \/ \E l \in Lanes : message_expires(l)
    \/ \E j \in JobIds : client_mark_job_for_retry(j)
    \/ WorkerStep(1)
    \/ broker_fails

SpecTtl == InitTtl /\ [][NextTtl]_vars

\* the matching engine called again and again while the ledger changes
InitMatch == InitApi /\ channel = "none"

NextMatch ==
    \/ \E data \in ExtractedData, table \in TableOutcomes, fetch_ok \in BOOLEAN :
          find_match(data, table, fetch_ok)
    \/ \E item \in OpenItems : ledger_opens(item)
    \/ ledger_settles

SpecMatch == InitMatch /\ [][NextMatch]_vars

\* the pipeline tracker alone, under every call sequence of its callers
InitTracker == InitApi /\ channel = "none"

\* the stage names the callers of this specification pass
ApiStageNames == {"UPLOAD", "VALIDATION"}

NextTracker ==
    \/ start_execution
    \/ \E x \in ExecutionIds, n \in ApiStageNames : start_stage(x, n)
    \/ \E n \in ApiStageNames : new_stage_metrics(n)
    \/ \E x \in ExecutionIds, h \in 0..Len(metrics), o \in Outcomes :
           complete_stage(x, h, o.success, o.error_message)
    \/ \E x \in ExecutionIds, o \in Outcomes :
           complete_execution(x, o.success, o.error_message)
    \/ tick

SpecTracker == InitTracker /\ [][NextTracker]_vars

\* one worker's _process_job calls, one after the other, with the tracker
InitAttempt == InitApi /\ channel = "open"

NextAttempt ==
    \/ \E p \in Priorities : enqueue_job(p)
    \/ \E j \in JobIds : client_mark_job_for_retry(j)
    \/ \E j \in JobIds : process_job_begins(j)
    \/ stage_returns
    \/ \E msg \in ErrorMessages : stage_raises(msg)
    \/ \E msg \in ErrorMessages : finish_raises(msg)
    \/ process_job_returns
    \/ process_job_fails

SpecAttempt == InitAttempt /\ [][NextAttempt]_vars

\* workers that record stages while a reporting thread computes statistics
InitReader == InitTracker

NextReader ==
    \/ start_execution
    \/ \E x \in ExecutionIds, n \in ApiStageNames : start_stage(x, n)
    \/ \E x \in ExecutionIds, h \in 0..Len(metrics), o \in Outcomes :
           complete_stage(x, h, o.success, o.error_message)
    \/ \E n \in ApiStageNames : reader_reads(n)
    \/ reader_filters_successful
    \/ reader_filters_failed
    \/ reader_returns

SpecReader == InitReader /\ [][NextReader]_vars

\* the timer-triggered worker alone draining the lanes; the timer keeps firing
InitTimer == InitApi /\ channel = "open"

NextTimer ==
    \/ \E p \in Priorities : enqueue_job(p)
    \/ \E j \in JobIds : client_mark_job_for_retry(j)
    \/ \E h \in TimerOutcomes, n \in TimerOutcomes : timer_main(h, n)
    \/ broker_fails

SpecTimer ==
    /\ InitTimer
    /\ [][NextTimer]_vars
    /\ WF_vars(\E h \in TimerOutcomes, n \in TimerOutcomes : timer_main(h, n))

\* ------------------------------------------------------------------ claims
Stored(j) == job_store[j] # NoJob

\* C1: in every reachable state of the pool (producers enqueueing, concurrent
\* workers failing jobs, clients calling mark_job_for_retry, jobs moved to the
\* DLQ and resolved), every stored job has retry_count <= max_retries.
C1_RetryCountBounded ==
    \A j \in JobIds : Stored(j) => job_store[j].retry_count <= job_store[j].max_retries

\* a job a worker processed and failed stands at retry_count = max_retries
C1_Witness ==
    \E j \in JobIds :
        /\ Stored(j)
        /\ job_store[j].started_at
        /\ job_store[j].status = "RETRYING"
        /\ job_store[j].retry_count = job_store[j].max_retries

\* C2, the states: on a job with retry_count = max_retries mark_job_for_retry
\* returns false and leaves the store as it is; on a job with retry_count <
\* max_retries it returns true, adds exactly 1 to retry_count, sets RETRYING
\* and touches nothing else.
C2_MarkSemantics ==
    \A j \in JobIds : Stored(j) =>
        IF job_store[j].retry_count = job_store[j].max_retries
        THEN /\ ~can_retry(job_store, j)
             /\ mark_job_for_retry(job_store, j) = job_store
        ELSE /\ job_store[j].retry_count < job_store[j].max_retries
             /\ can_retry(job_store, j)
             /\ mark_job_for_retry(job_store, j) =
                    [job_store EXCEPT ![j] = [@ EXCEPT !.retry_count = job_store[j].retry_count + 1,
                                                       !.status = "RETRYING"]]

\* C2, the steps: a worker whose job fails at retry_count = max_retries leaves
\* the job as it is and goes on to move_to_dlq, which sets DLQ; and no step
\* moves a job with retry_count = max_retries into RETRYING.
C2_ExhaustedGoesToDlq ==
    /\ \A w \in Workers :
          /\ (stage_fails(w) \/ finish_fails(w))
                /\ Stored(cur[w])
                /\ job_store[cur[w]].retry_count = job_store[cur[w]].max_retries
             => pc'[w] = "dlq" /\ job_store' = job_store
          /\ worker_move_to_dlq(w) /\ Stored(cur[w])
             => /\ pc'[w] = "dlqpub"
                /\ job_store'[cur[w]].status = "DLQ"
                /\ job_store'[cur[w]].retry_count = job_store[cur[w]].retry_count
    /\ \A j \in JobIds :
          /\ Stored(j)
          /\ job_store[j].retry_count = job_store[j].max_retries
          /\ job_store[j].status # "RETRYING"
          /\ job_store'[j] # NoJob
          => job_store'[j].status # "RETRYING"

\* C2: mark_job_for_retry at and below the retry limit, and the worker's DLQ move
C2_MarkJobForRetry == []C2_MarkSemantics /\ [][C2_ExhaustedGoesToDlq]_vars

\* a worker's failure found retry_count = max_retries and moved the job to the DLQ
C2_Witness ==
    \E w \in Workers :
        /\ pc[w] = "dlqpub"
        /\ Stored(cur[w])
        /\ job_store[cur[w]].status = "DLQ"
        /\ job_store[cur[w]].error_message = ReasonMaxRetries
        /\ job_store[cur[w]].retry_count = job_store[cur[w]].max_retries

\* C3: with the broker reachable and a worker that keeps running, a job whose
\* every attempt fails eventually stands at status DLQ with retry_count =
\* max_retries; it does not stay in RETRYING or QUEUED for ever.
C3_FailingJobEndsInDlq ==
    \A j \in JobIds :
        Stored(j) ~> (/\ Stored(j)
                      /\ job_store[j].status = "DLQ"
                      /\ job_store[j].retry_count = job_store[j].max_retries)

\* C4, the step: whatever the broker connection is (none, open, closed so that
\* the publish raises), an enqueue_job call hands out a job id and leaves under
\* that id a stored job with status QUEUED, retry_count 0 and the priority
\* given, the other stored jobs untouched; the payload reaches the lane of
\* that priority exactly when the channel is open.
C4_EnqueueStep ==
    \A p \in Priorities : enqueue_job(p) =>
        /\ next_job' = next_job + 1
        /\ job_store'[next_job] # NoJob
        /\ job_store'[next_job].status = "QUEUED"
        /\ job_store'[next_job].retry_count = 0
        /\ job_store'[next_job].priority = p
        /\ get_job_status(job_store', next_job) = JobMetadata(p)
        /\ \A j \in JobIds \ {next_job} : job_store'[j] = job_store[j]
        /\ IF channel = "open"
           THEN queues'[get_queue_for_priority(p)] =
                    Append(queues[get_queue_for_priority(p)], to_dict(next_job, job_store'[next_job]))
           ELSE queues' = queues

\* C4: enqueue_job always returns a job id and stores the job as QUEUED with
\* retry_count 0 and the priority given, whether or not the broker is reachable
C4_EnqueueAlwaysStores == [][C4_EnqueueStep]_vars

\* jobs were enqueued with a broker and without: the first one waits in its
\* lane, the one enqueued after the connection broke is stored and QUEUED
\* though it was never published
C4_Witness ==
    /\ channel = "closed"
    /\ next_job = 3
    /\ Pending = 1
    /\ Stored(1) /\ job_store[1].status = "QUEUED"
    /\ Stored(2) /\ job_store[2].status = "QUEUED" /\ job_store[2].retry_count = 0
    /\ \E l \in Lanes : queues[l] # <<>> /\ Head(queues[l]).job_id = 1

\* the status changes of the job state machine, the operator's DLQ -> QUEUED included
AllowedTransitions ==
    {<<"QUEUED", "PROCESSING">>, <<"PROCESSING", "COMPLETED">>, <<"PROCESSING", "FAILED">>,
     <<"FAILED", "RETRYING">>, <<"RETRYING", "QUEUED">>, <<"FAILED", "DLQ">>,
     <<"DLQ", "QUEUED">>}

\* C5: every status change that a worker's handling of a failed attempt makes
\* to a stored job is one of QUEUED->PROCESSING, PROCESSING->COMPLETED,
\* PROCESSING->FAILED, FAILED->RETRYING, RETRYING->QUEUED, FAILED->DLQ: the
\* failed attempt passes through FAILED before RETRYING or DLQ.
C5_WorkerTransitionsAllowed ==
    [][(\E w \in Workers : stage_fails(w) \/ finish_fails(w) \/ worker_move_to_dlq(w)) =>
         \A j \in JobIds :
            (Stored(j) /\ job_store'[j] # NoJob /\ job_store'[j].status # job_store[j].status)
            => <<job_store[j].status, job_store'[j].status>> \in AllowedTransitions]_vars

\* C6: once a stored job is COMPLETED or DLQ, no step of a worker changes any
\* of its fields; a COMPLETED job never becomes RETRYING or DLQ.
C6_TerminalJobsFrozen ==
    [][(\E w \in Workers : WorkerStep(w)) =>
         \A j \in JobIds :
            (Stored(j) /\ job_store[j].status \in {"COMPLETED", "DLQ"})
            => job_store'[j] = job_store[j]]_vars

\* C8: a delivery is acknowledged only when its job has reached COMPLETED or
\* DLQ; no message is acknowledged while its job is still QUEUED or PROCESSING.
C8_AckOnlyWhenSettled ==
    [][\A j \in JobIds :
         (j \in acked' /\ j \notin acked)
         => (job_store'[j] # NoJob /\ job_store'[j].status \in {"COMPLETED", "DLQ"})]_vars

\* HIGH before NORMAL before LOW
Rank(priority) == IF priority = "HIGH" THEN 1 ELSE IF priority = "NORMAL" THEN 2 ELSE 3

\* C7, the states (single worker): every message waits in the lane of its
\* priority; the batch of a cycle lists its jobs in the order high, normal,
\* low, and the job in process does not rank below any job still in the batch.
C7_BatchInLaneOrder ==
    /\ \A l \in Lanes : \A i \in 1..Len(queues[l]) :
          get_queue_for_priority(queues[l][i].priority) = l
    /\ \A i, k \in 1..Len(jobs[1]) :
          i < k => Rank(jobs[1][i].priority) <= Rank(jobs[1][k].priority)
    /\ (cur[1] # 0 /\ Stored(cur[1])) =>
          \A i \in 1..Len(jobs[1]) :
              Rank(job_store[cur[1]].priority) <= Rank(jobs[1][i].priority)

\* C7, the steps (single worker): a poll cycle starts with an empty batch at
\* the high lane and takes its oldest job when there is one; the normal lane
\* is polled only after the high lane and the low lane only after the normal
\* lane; a closed channel stays closed, so a cycle whose high poll failed
\* takes nothing from a lower lane; the worker starts the jobs of the batch
\* from its head.
C7_PollOrder ==
    /\ (pc[1] = "loop" /\ pc'[1] # "loop") =>
          /\ jobs[1] = <<>>
          /\ queues'["process_document_normal"] = queues["process_document_normal"]
          /\ queues'["process_document_low"] = queues["process_document_low"]
          /\ (channel = "open" /\ queues["process_document_high"] # <<>>) =>
                /\ jobs'[1] = <<Head(queues["process_document_high"])>>
                /\ jobs'[1][1].priority = "HIGH"
                /\ pc'[1] = IF batch_size = 1 THEN "batch" ELSE "process_document_normal"
    /\ \A l \in Lanes :
          Len(queues'[l]) < Len(queues[l]) =>
            /\ channel = "open"
            /\ pc[1] = IF l = "process_document_high" THEN "loop" ELSE l
            /\ jobs'[1] = Append(jobs[1], Head(queues[l]))
    /\ (pc'[1] = "process_document_normal" /\ pc[1] # pc'[1]) => pc[1] = "loop"
    /\ (pc'[1] = "process_document_low" /\ pc[1] # pc'[1]) => pc[1] = "process_document_normal"
    /\ channel = "closed" => channel' = "closed"
    /\ (pc[1] = "batch" /\ pc'[1] # "batch") =>
          /\ pc'[1] = "stages"
          /\ cur'[1] = Head(jobs[1]).job_id
          /\ jobs'[1] = Tail(jobs[1])

C9_MoveStep ==
    \A j \in JobIds : client_move_to_dlq(j) =>
        IF Stored(j)
        THEN job_store' = [job_store EXCEPT ![j] =
                              [@ EXCEPT !.status = "DLQ", !.error_message = ReasonManual]]
        ELSE job_store' = job_store

\* C9, the publish: with an open channel the payload of the job is the newest
\* message of the dead-letter lane; without one (none, or closed so that the
\* publish raises) the lane is as before; either way the call returns and the
\* store keeps the update.
C9_PublishStep ==
    client_move_to_dlq_publish =>
        /\ job_store' = job_store
        /\ moving' = 0
        /\ IF channel = "open" /\ Stored(moving)
           THEN /\ dlq_queue' # <<>>
                /\ dlq_queue'[Len(dlq_queue')] = to_dict(moving, job_store[moving])
           ELSE dlq_queue' = dlq_queue

\* C9: move_to_dlq updates the store whether or not the broker is reachable
C9_MoveToDlq == [][C9_MoveStep /\ C9_PublishStep]_vars

\* a job was moved to the DLQ after the connection broke: the call has
\* returned, the store holds DLQ and the reason, nothing was published
C9_Witness ==
    /\ channel = "closed"
    /\ moving = 0
    /\ dlq_queue = <<>>
    /\ \E j \in JobIds :
          /\ Stored(j)
          /\ job_store[j].status = "DLQ"
          /\ job_store[j].error_message = ReasonManual

\* C10: whatever the channel is, resolve_dlq_item on a DLQ job returns true,
\* 'retry' leaving it QUEUED and published on the lane of its priority and
\* 'delete' leaving get_job_status not-found; on an unknown job id or a job
\* that is not DLQ it returns false and changes neither store nor lanes.
C10_ResolveIndependentOfBroker ==
    \A j \in JobIds, a \in {"retry", "delete"} :
        LET store == resolve_dlq_item_store(job_store, j, a)
            qs == resolve_dlq_item_queues(job_store, channel, queues, j, a)
        IN IF Stored(j) /\ job_store[j].status = "DLQ"
           THEN /\ resolve_dlq_item_ret(job_store, channel, j, a)
                /\ a = "retry" =>
                      /\ store[j] # NoJob
                      /\ store[j].status = "QUEUED"
                      /\ qs = [queues EXCEPT ![get_queue_for_priority(job_store[j].priority)] =
                                  Append(@, to_dict(j, store[j]))]
                /\ a = "delete" => get_job_status(store, j) = NoJob
           ELSE /\ ~resolve_dlq_item_ret(job_store, channel, j, a)
                /\ store = job_store
                /\ qs = queues

\* C11: whenever the payload of a job sits in the dead-letter lane (after it
\* aged out of its priority lane, or after move_to_dlq published it), the job
\* store shows that job with status DLQ and get_dlq_items returns it.
C11_DeadLetteredJobsAreDlq ==
    \A i \in 1..Len(dlq_queue) :
        LET j == dlq_queue[i].job_id
        IN /\ Stored(j)
           /\ job_store[j].status = "DLQ"
           /\ \E k \in 1..Len(get_dlq_items(job_store, 100, 0)) :
                 get_dlq_items(job_store, 100, 0)[k] = j

\* C12, the step: a find_match call whose duplicate lookup finds
\* (vendor_tax_id, invoice_id) in the index returns RED "Duplicate invoice
\* detected" and does not call get_open_items, whatever the ledger holds; a
\* call that does fetch the ledger is one whose lookup came first and did not
\* find the pair.
C12_DuplicateStep ==
    \A table \in TableOutcomes, fetch_ok \in BOOLEAN :
        LET data == extracted'
        IN find_match(data, table, fetch_ok) =>
            /\ check_duplicate_invoice(processed_invoices, data.vendor_tax_id, data.invoice_id, table)
                  => (match_result' = DuplicateResult /\ ~ledger_fetched')
            /\ ledger_fetched' =>
                  ~check_duplicate_invoice(processed_invoices, data.vendor_tax_id,
                                           data.invoice_id, table)

C13_DuplicateDetectionIdempotent ==
    [][\A table \in TableOutcomes, fetch_ok \in BOOLEAN :
         LET data == extracted'
         IN
         (/\ match_result # NoResult
          /\ extracted.vendor_tax_id = data.vendor_tax_id
          /\ extracted.invoice_id = data.invoice_id
          /\ data.vendor_tax_id # NoTaxId
          /\ data.invoice_id # NoInvoiceId
          /\ find_match(data, table, fetch_ok))
         => match_result' = DuplicateResult]_vars

\* the smallest index of a non-empty set of indices
FirstOf(S) == CHOOSE i \in S : \A k \in S : i <= k

\* the indices of the items with the tax id and exactly the amount of the extraction
HardMatches(items, data) ==
    {i \in 1..Len(items) :
        items[i].tax_id = data.vendor_tax_id /\ items[i].amount = data.amount}

\* C14, the step: on a non-duplicate input, if an item of the fetched list has
\* the extracted tax id and exactly the extracted amount, find_match returns
\* GREEN with confidence 100 and the id of the first such item, wherever the
\* items that only match softly stand; and it returns GREEN in no other case.
C14_HardMatchStep ==
    \A table \in TableOutcomes, fetch_ok \in BOOLEAN :
        LET data == extracted'
            items == get_open_items(ledger, fetch_ok)
            duplicate == check_duplicate_invoice(processed_invoices, data.vendor_tax_id,
                                                 data.invoice_id, table)
        IN find_match(data, table, fetch_ok) =>
            /\ (~duplicate /\ HardMatches(items, data) # {}) =>
                  /\ match_result'.status = "GREEN"
                  /\ match_result'.confidence = 100
                  /\ match_result'.match_id = items[FirstOf(HardMatches(items, data))].id
            /\ match_result'.status = "GREEN" =>
                  (~duplicate /\ HardMatches(items, data) # {})

\* C14: a hard match takes precedence over every soft match
C14_HardMatchPrecedence == [][C14_HardMatchStep]_vars

\* the ledger lists first an item within tolerance and then a hard match; the
\* call returned GREEN with the id of the second
C14_Witness ==
    /\ match_result.status = "GREEN"
    /\ Len(ledger) = 2
    /\ ledger[1].tax_id = extracted.vendor_tax_id
    /\ ledger[1].amount = 105
    /\ extracted.amount = 100
    /\ ledger[2].tax_id = extracted.vendor_tax_id
    /\ ledger[2].amount = 100
    /\ ledger[2].id # ledger[1].id
    /\ match_result.match_id = ledger[2].id
    /\ match_result.confidence = 100

\* the indices of the items with the extracted tax id that are within 5 of the
\* extracted amount or whose invoice number is at least 80 similar
SoftMatches(items, data) ==
    {i \in 1..Len(items) :
        /\ items[i].tax_id = data.vendor_tax_id
        /\ \/ abs(items[i].amount - data.amount) <= 5
           \/ /\ items[i].invoice_id # <<>>
              /\ data.invoice_id # <<>>
              /\ ratio(lower(items[i].invoice_id), lower(data.invoice_id)) >= 80}

\* C15, the step: on a non-duplicate input without a hard match, the first
\* item in list order that has the extracted tax id and is within 5 of the
\* amount (5 included) or at least 80 similar in invoice number decides:
\* within tolerance gives YELLOW with confidence 90 and a reason naming the
\* tolerance, otherwise YELLOW with the similarity as confidence; with no
\* such item (an empty or failed fetch included) the result is RED "No
\* matching open item found".
C15_SoftMatchStep ==
    \A table \in TableOutcomes, fetch_ok \in BOOLEAN :
        LET data == extracted'
            items == get_open_items(ledger, fetch_ok)
            duplicate == check_duplicate_invoice(processed_invoices, data.vendor_tax_id,
                                                 data.invoice_id, table)
            soft == SoftMatches(items, data)
        IN (find_match(data, table, fetch_ok) /\ ~duplicate /\ HardMatches(items, data) = {}) =>
            IF soft = {}
            THEN match_result' = [status |-> "RED", reason |-> "No matching open item found"]
            ELSE LET item == items[FirstOf(soft)]
                 IN /\ match_result'.status = "YELLOW"
                    /\ match_result'.match_id = item.id
                    /\ IF abs(item.amount - data.amount) <= 5
                       THEN /\ match_result'.confidence = 90
                            /\ match_result'.reason = "Amount mismatch within tolerance"
                       ELSE /\ match_result'.confidence =
                                  ratio(lower(item.invoice_id), lower(data.invoice_id))
                            /\ match_result'.confidence >= 80

C17_InvalidUseStep ==
    \A x \in ExecutionIds, h \in 0..Len(metrics), o \in Outcomes :
        ( /\ complete_stage(x, h, o.success, o.error_message)
          /\ \/ h = NoHandle
             \/ x \notin DOMAIN executions
             \/ metrics[h].status # "RUNNING" ) =>
            /\ tracker_error' # "none"
            /\ metrics' = metrics
            /\ executions' = executions
            /\ stage_history' = stage_history

\* C17: completing a stage that was not started is an invalid-use error
C17_CompleteBeforeStartIsError == [][C17_InvalidUseStep]_vars

\* C19, the step: after complete_stage every stage name's history holds at
\* most history_limit entries, and the history of the completed stage is the
\* tail of (the history before, then the completed handle): the newest
\* entries in completion order, the oldest dropped.
C19_HistoryStep ==
    \A x \in DOMAIN executions, h \in DOMAIN metrics, o \in Outcomes :
        complete_stage(x, h, o.success, o.error_message) =>
            LET n == metrics[h].stage_name
                full == Append(stage_history[n], h)
                kept == stage_history'[n]
            IN /\ \A m \in StageNames : Len(stage_history'[m]) <= HistoryLimit
               /\ \A m \in StageNames \ {n} : stage_history'[m] = stage_history[m]
               /\ Len(kept) = IF Len(full) > HistoryLimit THEN HistoryLimit ELSE Len(full)
               /\ \A i \in 1..Len(kept) : kept[i] = full[Len(full) - Len(kept) + i]

\* C19: the per-stage history is bounded and keeps the newest entries in order
C19_HistoryBounded == [][C19_HistoryStep]_vars

\* an execution lists more completions of one stage than the limit, by
\* different handles, and the history holds exactly the last of them
C19_Witness ==
    \E x \in DOMAIN executions, n \in StageNames :
        LET st == executions[x].stages
        IN /\ Len(st) > HistoryLimit
           /\ \A i \in DOMAIN st : metrics[st[i]].stage_name = n
           /\ st[1] # st[2]
           /\ stage_history[n] = SubSeq(st, Len(st) - HistoryLimit + 1, Len(st))

\* C20: the tracker holds at most history_limit executions
C20_ExecutionsBounded == Len(executions) <= HistoryLimit

\* the error message a tracker record keeps of an exception's text (none for an empty text)
Kept(error_message) == IF error_message = "" THEN NoMsg ELSE error_message

Entries(stage_name, status) ==
    Cardinality({i \in DOMAIN stage_history[stage_name] :
                    metrics[stage_history[stage_name][i]].status = status})

\* C21: for every stage with a non-empty history, get_stage_performance_stats
\* reports the number of history entries as total_executions, the number of
\* FAILED entries as failed_executions and success_rate = 100 * successes /
\* total, also when every entry is FAILED.
C21_StatsCoverWholeHistory ==
    \A n \in StageNames :
        stage_history[n] # <<>> =>
            LET stats == get_stage_performance_stats(stage_history, metrics, n)
                count == Len(stage_history[n])
            IN /\ stats.total_executions = count
               /\ stats.failed_executions = Entries(n, "FAILED")
               /\ stats.success_rate.num * count
                     = 100 * Entries(n, "SUCCESS") * stats.success_rate.den

\* C22: the statistics a get_stage_performance_stats call returns while
\* workers complete stages are those of one snapshot of the history:
\* total_executions = successful_executions + failed_executions.
C22_StatsAreOneSnapshot ==
    reader.pc = "done" =>
        reader.stats.total_executions
            = reader.stats.successful_executions + reader.stats.failed_executions

\* C23, the step: when all stages of a job succeeded and the job was set to
\* COMPLETED, the rest of the attempt, a failing status sink call included,
\* changes neither the job's status nor its retry_count.
C23_SinkStep ==
    \A w \in Workers :
        (pc[w] = "finish" /\ pc'[w] # "finish" /\ Stored(cur[w])) =>
            /\ job_store'[cur[w]].status = job_store[cur[w]].status
            /\ job_store'[cur[w]].retry_count = job_store[cur[w]].retry_count

\* C23: the status sink is fire-and-forget
C23_SinkIsFireAndForget == [][C23_SinkStep]_vars

\* the payload of job j waits in the given lane
Waits(j, lane) == \E i \in DOMAIN queues[lane] : queues[lane][i].job_id = j

\* C24: a job that waits in the low lane while the broker is reachable and
\* the high and normal lanes are empty is eventually dequeued by the
\* timer-triggered worker.
C24_LowLaneIsDrained ==
    \A j \in JobIds :
        ( /\ Waits(j, "process_document_low")
          /\ queues["process_document_high"] = <<>>
          /\ queues["process_document_normal"] = <<>>
          /\ channel = "open" )
        ~> (~Waits(j, "process_document_low") \/ channel # "open")

\* C25: whenever a resolve_dlq_item call returns false, it leaves the job
\* store as it was; a failed 'retry' of a DLQ job leaves its status DLQ and
\* its error_message in place.
C25_FailedResolveChangesNothing ==
    \A j \in JobIds, a \in {"retry", "delete"} :
        ~resolve_dlq_item_ret(job_store, channel, j, a) =>
            resolve_dlq_item_store(job_store, j, a) = job_store

\* C26: a job a worker has dequeued and acknowledged is processed by it: no
\* job is acknowledged at the broker, still QUEUED in the Job Store, in no
\* lane and in no worker's batch
Held(j) == \E w \in Workers : cur[w] = j \/ \E i \in DOMAIN jobs[w] : jobs[w][i].job_id = j

Lost(j) ==
    /\ j \in acked
    /\ Stored(j)
    /\ job_store[j].status = "QUEUED"
    /\ \A lane \in DOMAIN queues : ~Waits(j, lane)
    /\ ~Held(j)

C26_AckedJobsAreProcessed == \A j \in JobIds : ~Lost(j)

\* C27: move_to_dlq is atomic with respect to resolve_dlq_item: every payload
\* on the dead-letter lane carries status DLQ, and no job is at once QUEUED on
\* a priority lane and published on the dead-letter lane
DeadLettered(j) == \E i \in DOMAIN dlq_queue : dlq_queue[i].job_id = j

Requeued(j) ==
    /\ Stored(j)
    /\ job_store[j].status = "QUEUED"
    /\ \E lane \in DOMAIN queues : Waits(j, lane)

C27_MoveToDlqIsAtomic ==
    /\ \A i \in DOMAIN dlq_queue : dlq_queue[i].status = "DLQ"
    /\ \A j \in JobIds : ~(Requeued(j) /\ DeadLettered(j))

\* C28: the job view built by the status endpoint is a consistent snapshot:
\* it never shows PROCESSING without started_at, nor COMPLETED or FAILED
\* without completed_at
C28_ViewIsConsistent ==
    view.pc = "done" =>
        /\ view.job_status = "PROCESSING" => view.started_at
        /\ view.job_status \in {"COMPLETED", "FAILED"} => view.completed_at

\* C29: resolve_dlq_item(job_id, 'retry') changes only status and
\* error_message; a job dead-lettered with its retries used up keeps
\* retry_count = max_retries when the operator re-queues it, never enters
\* RETRYING again, and its next failed attempt goes on to move_to_dlq
Exhausted(j) == Stored(j) /\ job_store[j].retry_count = job_store[j].max_retries

C29_RetryStep ==
    \A j \in JobIds :
        /\ (Stored(j) /\ job_store[j].status = "DLQ" /\ job_store'[j] # NoJob
                /\ job_store'[j].status = "QUEUED")
            => job_store'[j] = [job_store[j] EXCEPT !.status = "QUEUED", !.error_message = NoMsg]
        /\ (Exhausted(j) /\ job_store'[j] # NoJob)
            => /\ job_store'[j].retry_count = job_store'[j].max_retries
               /\ job_store'[j].status = "RETRYING" => job_store[j].status = "RETRYING"
        /\ \A w \in Workers :
              (cur[w] = j /\ Exhausted(j) /\ pc[w] = "stages" /\ pc'[w] \notin {"stages", "finish"})
              => pc'[w] = "dlq"

C29_RetryKeepsRetryCount == [][C29_RetryStep]_vars

\* the worker is about to dead-letter a job a second time: the operator
\* re-queued it and the attempt that followed failed
C29_Witness ==
    \E j \in JobIds :
        /\ DeadLettered(j)
        /\ Exhausted(j)
        /\ cur[1] = j
        /\ pc[1] = "dlq"

\* C30: the lookup itself writes the Duplicate Index: a find_match call with a
\* non-empty (vendor_tax_id, invoice_id) leaves the pair indexed whatever it
\* returns, a call with a missing field leaves the index as it was, and a
\* second call with the same non-empty pair (the retried attempt) returns RED
\* "Duplicate invoice detected"
HasPair(data) == data.vendor_tax_id # NoTaxId /\ data.invoice_id # NoInvoiceId

C30_LookupStep ==
    \A table \in TableOutcomes, fetch_ok \in BOOLEAN :
        LET data == extracted'
        IN find_match(data, table, fetch_ok) =>
            /\ HasPair(data) => <<data.vendor_tax_id, data.invoice_id>> \in processed_invoices'
            /\ ~HasPair(data) => processed_invoices' = processed_invoices
            /\ (/\ HasPair(data)
                /\ match_result # NoResult
                /\ extracted.vendor_tax_id = data.vendor_tax_id
                /\ extracted.invoice_id = data.invoice_id)
               => match_result' = DuplicateResult

C30_LookupWritesIndex == [][C30_LookupStep]_vars

====
